---- MODULE Spec2Model ----
(***************************************************************************)
(* playmate (src/src/main.rs): a command-line program that moves the track *)
(* currently playing on the user's Spotify account to the end of a target  *)
(* playlist.  The model covers the per-profile config store                *)
(* (PlaymateConfig::load / save over a TOML file), the token-cache based   *)
(* authentication (spotify_auth), the interactive playlist selection       *)
(* (fetch_playlist_id) and the remove-then-add workflow of main.           *)
(*                                                                         *)
(* Environment: the local filesystem and standard input/output do not      *)
(* fail (APPDATA is set, fs::write and read_line succeed); calls to the    *)
(* remote API may fail at any time.  Strings read from standard input are  *)
(* sequences of one-character strings.                                     *)
(***************************************************************************)
EXTENDS Integers, Sequences, FiniteSets, TLC

VARIABLES
    fs,               \* the files under %APPDATA%: path -> File
    remote,           \* the account's playlists: playlist id -> sequence of track ids
    pc,               \* position of the running process in main
    profile,          \* cli.profile of the running process
    config,           \* main's local `config` (a PlaymateConfig)
    token,            \* spotify.token of the running process
    playlists,        \* fetch_playlist_id's local `playlists`
    selection,        \* fetch_playlist_id's local `selection` (the line read)
    current_track_id, \* main's local `current_track_id` ("" while unset)
    notice,           \* what the run printed before a successful early return
    calls,            \* history: the remote API calls issued by this run, in order
    interactive,      \* history: this run went through the interactive authorization
    prompted,         \* history: this run showed the selection prompt
    saved,            \* history: this run called config.save
    runs,             \* history: number of runs started
    fileAtStart,      \* history: the profile's config file when this run started
    playlistAtStart,  \* history: `remote` when this run started
    credOwner,        \* history: profile whose run obtained the cached credential
    answer,           \* history: what the current-track query of this run answered
    rejected,         \* history: this run rejected a line at the selection prompt
    cacheAtStart,     \* history: the token cache file when this run started
    writes,           \* history: number of config.save calls per profile, over all runs
    resolutions,      \* history: successful playlist resolutions per profile, over all runs
    ret,              \* store harness: the last ProfileStore operation performed
    lastSaved,        \* store harness: record given to the last save
    lastLoad          \* store harness: result of the first load since the last save

vars == <<fs, remote, pc, profile, config, token, playlists, selection,
          current_track_id, notice, calls, interactive, prompted, saved, runs,
          fileAtStart, playlistAtStart, credOwner, writes, resolutions,
          answer, rejected, cacheAtStart, ret, lastSaved, lastLoad>>

harnessVars == <<ret, lastSaved, lastLoad>>

runHistory == <<answer, rejected, cacheAtStart>>

-----------------------------------------------------------------------------
(* Bounds of the model *)

MaxRuns == 2        \* program runs in one behaviour
MaxPlaylists == 2   \* entries of the fetched playlist listing
MaxLen == 3         \* tracks in a remote playlist before a run
MaxLine == 2        \* characters typed on one input line
MaxCache == 2       \* entries of playlist_track_cache

-----------------------------------------------------------------------------
(* Values *)

Profiles == {"default", "work"}
Tracks == {"t1", "t2"}
PlaylistNames == <<"pl1", "pl2", "pl3", "pl4", "pl5">>
PlaylistIdAt(i) == PlaylistNames[i]
PlaylistIds == {PlaylistIdAt(i) : i \in 1..MaxPlaylists}
SnapshotIds == {"", "s1"}

SeqsUpTo(S, n) == UNION {[1..k -> S] : k \in 0..n}

\* Option<String> / Option<PlaylistId> and Option<Vec<TrackId>>
NoneStr == [some |-> FALSE, v |-> ""]
SomeStr(s) == [some |-> TRUE, v |-> s]
NoneVec == [some |-> FALSE, v |-> <<>>]
SomeVec(a) == [some |-> TRUE, v |-> a]

\* struct PlaymateConfig
PlaymateConfig(pid, snap, cache) ==
    [playlist_id |-> pid, playlist_snapshot_id |-> snap, playlist_track_cache |-> cache]

\* PlaymateConfig::new
PlaymateConfig_new == PlaymateConfig(NoneStr, NoneStr, NoneVec)

Configs ==
    {PlaymateConfig(pid, snap, cache) :
        pid \in {NoneStr} \cup {SomeStr(p) : p \in PlaylistIds},
        snap \in {NoneStr} \cup {SomeStr(s) : s \in SnapshotIds},
        cache \in {NoneVec} \cup {SomeVec(a) : a \in SeqsUpTo(Tracks, MaxCache)}}

-----------------------------------------------------------------------------
(* Files.  A config file's text is a sequence of TOML lines `key = value`; *)
(* a value is a string, an array of strings, or something that does not    *)
(* parse.  The token cache carries the state of the credential it holds.   *)

StrLine(k, s) == [key |-> k, kind |-> "str", str |-> s, arr |-> <<>>]
ArrLine(k, a) == [key |-> k, kind |-> "arr", str |-> "", arr |-> a]
BadLine == [key |-> "", kind |-> "bad", str |-> "", arr |-> <<>>]

NoFile == [exists |-> FALSE, text |-> <<>>, cred |-> "none"]
TextFile(t) == [exists |-> TRUE, text |-> t, cred |-> "none"]
TokenFile(c) == [exists |-> TRUE, text |-> <<>>, cred |-> c]

\* a slip: one config file for every profile
config_path_shared(p) == <<"playmate", "config.toml">>

\* config_path of read_or_create_config_file and save
config_path(p) == <<"playmate", p, "config.toml">>

\* Config.cache_path of spotify_auth
cache_path == <<"playmate", "token_cache.json">>

Paths == {config_path(p) : p \in Profiles} \cup {cache_path}

-----------------------------------------------------------------------------
(* TOML (serde) conversion of a PlaymateConfig *)

\* a slip: a missing playlist_snapshot_id is written as an empty string
toml_to_string_none_as_empty(c) ==
    (IF c.playlist_id.some
        THEN <<StrLine("playlist_id", c.playlist_id.v)>> ELSE <<>>)
    \o <<StrLine("playlist_snapshot_id", c.playlist_snapshot_id.v)>>
    \o (IF c.playlist_track_cache.some
        THEN <<ArrLine("playlist_track_cache", c.playlist_track_cache.v)>> ELSE <<>>)

\* toml::to_string: fields in declaration order, a None field is left out
toml_to_string(c) ==
    (IF c.playlist_id.some
        THEN <<StrLine("playlist_id", c.playlist_id.v)>> ELSE <<>>)
    \o (IF c.playlist_snapshot_id.some
        THEN <<StrLine("playlist_snapshot_id", c.playlist_snapshot_id.v)>> ELSE <<>>)
    \o (IF c.playlist_track_cache.some
        THEN <<ArrLine("playlist_track_cache", c.playlist_track_cache.v)>> ELSE <<>>)

HasKey(text, k) == \E i \in 1..Len(text) : text[i].key = k
LineOf(text, k) == text[CHOOSE i \in 1..Len(text) : text[i].key = k]

\* what makes toml::from_str fail: a syntax error, a key defined twice, or a
\* field of PlaymateConfig holding a value of the wrong type
toml_is_err(text) ==
    \/ \E i \in 1..Len(text) : text[i].kind = "bad"
    \/ \E i, j \in 1..Len(text) : i # j /\ text[i].key = text[j].key
    \/ \E i \in 1..Len(text) :
          \/ text[i].key \in {"playlist_id", "playlist_snapshot_id"} /\ text[i].kind # "str"
          \/ text[i].key = "playlist_track_cache" /\ text[i].kind # "arr"

\* toml::from_str::<PlaymateConfig>: a missing key is None, other keys are ignored
toml_from_str(text) ==
    PlaymateConfig(
        IF HasKey(text, "playlist_id")
            THEN SomeStr(LineOf(text, "playlist_id").str) ELSE NoneStr,
        IF HasKey(text, "playlist_snapshot_id")
            THEN SomeStr(LineOf(text, "playlist_snapshot_id").str) ELSE NoneStr,
        IF HasKey(text, "playlist_track_cache")
            THEN SomeVec(LineOf(text, "playlist_track_cache").arr) ELSE NoneVec)

-----------------------------------------------------------------------------
(* ProfileStore: PlaymateConfig::load and PlaymateConfig::save *)

\* a slip: File::create runs whether or not the file exists
always_create_config_file(files, p) == [files EXCEPT ![config_path(p)] = TextFile(<<>>)]

\* the filesystem after read_or_create_config_file(profile)
read_or_create_config_file(files, p) ==
    IF ~files[config_path(p)].exists
        THEN [files EXCEPT ![config_path(p)] = TextFile(<<>>)]
        ELSE files

\* a slip: the record is written without its playlist_id
save_without_id(files, c, p) ==
    [files EXCEPT ![config_path(p)] =
        TextFile(toml_to_string([c EXCEPT !.playlist_id = NoneStr]))]

\* a slip: the record written holds the playlist_id alone
save_only_id(files, c, p) ==
    [files EXCEPT ![config_path(p)] =
        TextFile(toml_to_string(PlaymateConfig(c.playlist_id, NoneStr, NoneVec)))]

\* the filesystem after config.save(profile)
save(files, c, p) == [files EXCEPT ![config_path(p)] = TextFile(toml_to_string(c))]

\* the string load parses
config_str(files, p) == read_or_create_config_file(files, p)[config_path(p)].text

\* load panics (the unwrap of toml::from_str)
load_panics(files, p) == toml_is_err(config_str(files, p))

\* the record load returns
load(files, p) == toml_from_str(config_str(files, p))

-----------------------------------------------------------------------------
(* Standard input: str::trim and str::parse::<usize> *)

Chars == {" ", "+", "-", "0", "1", "2", "3", "a"}
DigitChars == {"0", "1", "2", "3", "4", "5", "6", "7", "8", "9"}
IsWhitespace(ch) == ch \in {" ", "\n", "\t", "\r"}

\* what read_line can put into `selection`: the typed characters and the
\* newline, or nothing at end of input
Lines == {<<>>} \cup {typed \o <<"\n">> : typed \in SeqsUpTo(Chars, MaxLine)}

RECURSIVE trim_start(_)
trim_start(s) ==
    IF s # <<>> /\ IsWhitespace(Head(s)) THEN trim_start(Tail(s)) ELSE s

RECURSIVE trim_end(_)
trim_end(s) ==
    IF s # <<>> /\ IsWhitespace(s[Len(s)])
        THEN trim_end(SubSeq(s, 1, Len(s) - 1)) ELSE s

\* str::trim
trim(s) == trim_end(trim_start(s))

DigitValue(ch) ==
    CASE ch = "0" -> 0 [] ch = "1" -> 1 [] ch = "2" -> 2 [] ch = "3" -> 3
      [] ch = "4" -> 4 [] ch = "5" -> 5 [] ch = "6" -> 6 [] ch = "7" -> 7
      [] ch = "8" -> 8 [] ch = "9" -> 9

\* the digits usize::from_str reads: one leading "+" is dropped, "-" is not a sign
usize_digits(s) == IF s # <<>> /\ Head(s) = "+" THEN Tail(s) ELSE s

\* selection.parse::<usize>().is_err()  (no line of the model reaches 2^64)
parse_is_err(s) ==
    \/ usize_digits(s) = <<>>
    \/ \E i \in 1..Len(usize_digits(s)) : usize_digits(s)[i] \notin DigitChars

RECURSIVE decimal(_)
decimal(d) ==
    IF d = <<>> THEN 0
    ELSE 10 * decimal(SubSeq(d, 1, Len(d) - 1)) + DigitValue(d[Len(d)])

\* selection.parse::<usize>().unwrap()
parse_usize(s) == decimal(usize_digits(s))

-----------------------------------------------------------------------------
(* The remote API *)

\* an entry of the collected playlist stream: Ok(SimplifiedPlaylist) or Err
OkEntry(i) == [ok |-> TRUE, id |-> PlaylistIdAt(i)]
ErrEntry == [ok |-> FALSE, id |-> ""]

\* current_user_playlists().collect(): the pages that loaded, then the error
\* that ended the stream, if any
Listings ==
    {[i \in 1..n |-> OkEntry(i)] : n \in 0..MaxPlaylists}
    \cup {[i \in 1..n |-> OkEntry(i)] \o <<ErrEntry>> : n \in 0..(MaxPlaylists - 1)}

\* a Vec is indexed from 0
VecAt(v, i) == v[i + 1]

\* a request can succeed with this token (token_refreshing: an expired token
\* that has a refresh token is refreshed by the request)
Usable(tok) == tok \in {"valid", "refreshable"}

\* the token cache after a request (token_cached: a refresh rewrites it)
CacheAfterCall(files, tok, ok) ==
    IF ok /\ tok = "refreshable"
        THEN [files EXCEPT ![cache_path] = TokenFile("valid")] ELSE files

TokenAfterCall(tok, ok) == IF ok THEN "valid" ELSE tok

\* a slip: only the first occurrence is removed
RECURSIVE remove_first_occurrence(_, _)
remove_first_occurrence(l, t) ==
    IF l = <<>> THEN <<>>
    ELSE IF Head(l) = t THEN Tail(l)
    ELSE <<Head(l)>> \o remove_first_occurrence(Tail(l), t)

\* playlist_remove_all_occurrences_of_items with one item
remove_all_occurrences(l, t) == SelectSeq(l, LAMBDA x : x # t)

\* playlist_add_items with one item and position None: appended
add_items(l, t) == Append(l, t)

-----------------------------------------------------------------------------
(* main, one step per action *)

\* Cli::parse: a new process starts under profile p
StartRun(p) ==
    /\ pc \in {"idle", "exit0", "panic"}
    /\ runs < MaxRuns
    /\ pc' = "load"
    /\ profile' = p
    /\ runs' = runs + 1
    /\ config' = PlaymateConfig_new
    /\ token' = "none"
    /\ playlists' = <<>>
    /\ selection' = <<>>
    /\ current_track_id' = ""
    /\ notice' = ""
    /\ calls' = <<>>
    /\ interactive' = FALSE
    /\ prompted' = FALSE
    /\ saved' = FALSE
    /\ fileAtStart' = fs[config_path(p)]
    /\ playlistAtStart' = remote
    /\ UNCHANGED <<fs, remote, credOwner, writes, resolutions, harnessVars>>
    /\ answer' = ""
    /\ rejected' = FALSE
    /\ cacheAtStart' = fs[cache_path]

\* let mut config = PlaymateConfig::load(&cli.profile)
LoadConfig ==
    /\ pc = "load"
    /\ fs' = read_or_create_config_file(fs, profile)
    /\ IF load_panics(fs, profile)
          THEN pc' = "panic" /\ UNCHANGED config
          ELSE pc' = "auth" /\ config' = load(fs, profile)
    /\ UNCHANGED <<remote, profile, token, playlists, selection, current_track_id,
                   notice, calls, interactive, prompted, saved, runs, fileAtStart,
                   playlistAtStart, credOwner, writes, resolutions, harnessVars>>
    /\ UNCHANGED runHistory

\* spotify_auth: if !spotify.config.cache_path.exists()
AuthCheckCache ==
    /\ pc = "auth"
    /\ IF ~fs[cache_path].exists
          THEN pc' = "auth_interactive" /\ interactive' = TRUE
          ELSE pc' = "auth_read" /\ UNCHANGED interactive
    /\ UNCHANGED <<fs, remote, profile, config, token, playlists, selection,
                   current_track_id, notice, calls, prompted, saved, runs, fileAtStart,
                   playlistAtStart, credOwner, writes, resolutions, harnessVars>>
    /\ UNCHANGED runHistory

\* spotify_auth: instructions, the enter gate, prompt_for_token(&url); on
\* success the library writes the new token to the cache
AuthInteractive(ok) ==
    /\ pc = "auth_interactive"
    /\ IF ok
          THEN /\ fs' = [fs EXCEPT ![cache_path] = TokenFile("valid")]
               /\ credOwner' = profile
               /\ pc' = "auth_read"
          ELSE /\ pc' = "panic"
               /\ UNCHANGED <<fs, credOwner>>
    /\ UNCHANGED <<remote, profile, config, token, playlists, selection,
                   current_track_id, notice, calls, interactive, prompted, saved, runs,
                   fileAtStart, playlistAtStart, writes, resolutions, harnessVars>>
    /\ UNCHANGED runHistory

\* spotify_auth: spotify.token = read_token_cache(true).await.unwrap()
AuthReadCache ==
    /\ pc = "auth_read"
    /\ IF fs[cache_path].cred = "garbage"
          THEN pc' = "panic" /\ UNCHANGED token
          ELSE pc' = "authenticated" /\ token' = fs[cache_path].cred
    /\ UNCHANGED <<fs, remote, profile, config, playlists, selection,
                   current_track_id, notice, calls, interactive, prompted, saved, runs,
                   fileAtStart, playlistAtStart, credOwner, writes, resolutions,
                   harnessVars>>
    /\ UNCHANGED runHistory

\* a slip: the playlist is resolved on every run
playlist_step_always(c) == "fetch"

\* main: if config.playlist_id.is_none() { resolve and save } before the query
playlist_step(c) == IF ~c.playlist_id.some THEN "fetch" ELSE "query"

\* main: the branch on config.playlist_id after spotify_auth has returned
CheckPlaylistId ==
    /\ pc = "authenticated"
    /\ pc' = playlist_step(config)
    /\ UNCHANGED <<fs, remote, profile, config, token, playlists, selection,
                   current_track_id, notice, calls, interactive, prompted, saved, runs,
                   fileAtStart, playlistAtStart, credOwner, writes, resolutions,
                   harnessVars>>
    /\ UNCHANGED runHistory

\* fetch_playlist_id: let playlists = current_user_playlists().collect().await
FetchPlaylists(listing) ==
    /\ pc = "fetch"
    /\ listing \in Listings
    /\ ~Usable(token) => listing = <<ErrEntry>>
    /\ playlists' = listing
    /\ calls' = Append(calls, "list")
    /\ token' = TokenAfterCall(token, listing # <<ErrEntry>>)
    /\ fs' = CacheAfterCall(fs, token, listing # <<ErrEntry>>)
    /\ pc' = "menu"
    /\ UNCHANGED <<remote, profile, config, selection, current_track_id, notice,
                   interactive, prompted, saved, runs, fileAtStart, playlistAtStart,
                   credOwner, writes, resolutions, harnessVars>>
    /\ UNCHANGED runHistory

\* a slip: entries that failed to load are skipped when the menu is printed
menu_step_tolerant(list) == "prompt"

\* printing the menu unwraps every entry: p.as_ref().expect(...)
menu_step(list) ==
    IF \E i \in 1..Len(list) : ~list[i].ok THEN "panic" ELSE "prompt"

\* fetch_playlist_id: the head of the loop, printing the numbered menu and the prompt
PrintMenu ==
    /\ pc = "menu"
    /\ pc' = menu_step(playlists)
    /\ prompted' = (prompted \/ menu_step(playlists) = "prompt")
    /\ UNCHANGED <<fs, remote, profile, config, token, playlists, selection,
                   current_track_id, notice, calls, interactive, saved, runs,
                   fileAtStart, playlistAtStart, credOwner, writes, resolutions,
                   harnessVars>>
    /\ UNCHANGED runHistory

\* a slip: the upper bound of the range check is off by one
selection_invalid_strict(line, list) ==
    \/ parse_is_err(trim(line))
    \/ parse_usize(trim(line)) < 1
    \/ parse_usize(trim(line)) >= Len(list)

\* the line is not a selection: the two `continue` branches of the loop
selection_invalid(line, list) ==
    \/ parse_is_err(trim(line))
    \/ parse_usize(trim(line)) < 1
    \/ parse_usize(trim(line)) > Len(list)

\* the identifier fetch_playlist_id returns for an accepted line
selected_id(line, list) == VecAt(list, parse_usize(trim(line)) - 1).id

\* a slip: the listing is fetched again on every iteration of the loop
retry_step_refetch == "fetch"

\* `continue`: back to the head of the loop, with the Vec collected before it
retry_step == "menu"

\* fetch_playlist_id: read_line, trim, parse, range check, continue or return
\* (the returned entry is unwrapped: expect("Error selecting playlist"));
\* main assigns the returned id to config.playlist_id
ReadSelection(line) ==
    /\ pc = "prompt"
    /\ selection' = line
    /\ IF selection_invalid(line, playlists)
          THEN pc' = retry_step /\ UNCHANGED <<config, resolutions>>
          ELSE IF ~VecAt(playlists, parse_usize(trim(line)) - 1).ok
          THEN pc' = "panic" /\ UNCHANGED <<config, resolutions>>
          ELSE /\ config' = [config EXCEPT
                              !.playlist_id = SomeStr(selected_id(line, playlists))]
               /\ resolutions' = [resolutions EXCEPT ![profile] = @ + 1]
               /\ pc' = "save"
    /\ UNCHANGED <<fs, remote, profile, token, playlists, current_track_id, notice,
                   calls, interactive, prompted, saved, runs, fileAtStart,
                   playlistAtStart, credOwner, writes, harnessVars>>
    /\ rejected' = (rejected \/ selection_invalid(line, playlists))
    /\ UNCHANGED <<answer, cacheAtStart>>

\* main: config.save(&cli.profile)
SaveConfig ==
    /\ pc = "save"
    /\ fs' = save(fs, config, profile)
    /\ saved' = TRUE
    /\ writes' = [writes EXCEPT ![profile] = @ + 1]
    /\ pc' = "query"
    /\ UNCHANGED <<remote, profile, config, token, playlists, selection,
                   current_track_id, notice, calls, interactive, prompted, runs,
                   fileAtStart, playlistAtStart, credOwner, resolutions, harnessVars>>
    /\ UNCHANGED runHistory

\* what current_user_playing_item can answer: an error, nothing playing, a
\* context without item, a local file (no id), or a catalog item with its id
QueryOutcomes == {"err", "none", "no_item", "local"} \cup Tracks

\* a slip: the "nothing is playing" guard is missing
query_step_unguarded(outcome) ==
    CASE outcome = "err" -> "panic"
      [] outcome = "no_item" -> "panic"
      [] outcome = "local" -> "exit0"
      [] OTHER -> "remove"

\* a slip: the track is added without the remove call before it
query_step_skips_remove(outcome) ==
    CASE outcome = "err" -> "panic"
      [] outcome = "none" -> "exit0"
      [] outcome = "no_item" -> "panic"
      [] outcome = "local" -> "exit0"
      [] OTHER -> "add"

\* where main goes on the query's answer: expect, is_none => return, expect on
\* .item, id().is_none() => return, otherwise on to the remove call
query_step(outcome) ==
    CASE outcome = "err" -> "panic"
      [] outcome = "none" -> "exit0"
      [] outcome = "no_item" -> "panic"
      [] outcome = "local" -> "exit0"
      [] OTHER -> "remove"

\* the println! before each early return
query_notice(outcome) ==
    CASE outcome = "none" -> "No track is playing"
      [] outcome = "local" -> "The current track is local"
      [] OTHER -> ""

\* main: the current-track query and the two guards that follow it
QueryCurrentTrack(outcome) ==
    /\ pc = "query"
    /\ outcome \in QueryOutcomes
    /\ ~Usable(token) => outcome = "err"
    /\ calls' = Append(calls, "current")
    /\ token' = TokenAfterCall(token, outcome # "err")
    /\ fs' = CacheAfterCall(fs, token, outcome # "err")
    /\ pc' = query_step(outcome)
    /\ notice' = IF query_step(outcome) = "exit0" THEN query_notice(outcome) ELSE notice
    /\ current_track_id' = IF outcome \in Tracks THEN outcome ELSE current_track_id
    /\ UNCHANGED <<remote, profile, config, playlists, selection, interactive,
                   prompted, saved, runs, fileAtStart, playlistAtStart, credOwner,
                   writes, resolutions, harnessVars>>
    /\ answer' = outcome
    /\ UNCHANGED <<rejected, cacheAtStart>>

\* main: playlist_remove_all_occurrences_of_items(...).await.expect(...)
RemoveTrack(ok) ==
    /\ pc = "remove"
    /\ ok => Usable(token) /\ config.playlist_id.v \in DOMAIN remote
    /\ calls' = Append(calls, "remove")
    /\ token' = TokenAfterCall(token, ok)
    /\ fs' = CacheAfterCall(fs, token, ok)
    /\ IF ok
          THEN /\ remote' = [remote EXCEPT ![config.playlist_id.v] =
                                remove_all_occurrences(@, current_track_id)]
               /\ pc' = "add"
          ELSE pc' = "panic" /\ UNCHANGED remote
    /\ UNCHANGED <<profile, config, playlists, selection, current_track_id, notice,
                   interactive, prompted, saved, runs, fileAtStart, playlistAtStart,
                   credOwner, writes, resolutions, harnessVars>>
    /\ UNCHANGED runHistory

\* main: playlist_add_items(...).await.expect(...)
AddTrack(ok) ==
    /\ pc = "add"
    /\ ok => Usable(token) /\ config.playlist_id.v \in DOMAIN remote
    /\ calls' = Append(calls, "add")
    /\ token' = TokenAfterCall(token, ok)
    /\ fs' = CacheAfterCall(fs, token, ok)
    /\ IF ok
          THEN /\ remote' = [remote EXCEPT ![config.playlist_id.v] =
                                add_items(@, current_track_id)]
               /\ pc' = "exit0"
          ELSE pc' = "panic" /\ UNCHANGED remote
    /\ UNCHANGED <<profile, config, playlists, selection, current_track_id, notice,
                   interactive, prompted, saved, runs, fileAtStart, playlistAtStart,
                   credOwner, writes, resolutions, harnessVars>>
    /\ UNCHANGED runHistory

-----------------------------------------------------------------------------
(* Store harness: load and save called directly on one profile's file *)

NoOp == [op |-> "none", afterLoad |-> FALSE, afterSave |-> FALSE]
NoSaved == [valid |-> FALSE, rec |-> PlaymateConfig_new]
NoLoad == [valid |-> FALSE, rec |-> PlaymateConfig_new, file |-> NoFile, created |-> FALSE]

\* PlaymateConfig::load(&profile)
StoreLoad ==
    /\ fs' = read_or_create_config_file(fs, profile)
    /\ IF load_panics(fs, profile)
          THEN /\ ret' = [op |-> "load_panic", afterLoad |-> lastLoad.valid,
                          afterSave |-> lastSaved.valid]
               /\ UNCHANGED <<config, lastLoad>>
          ELSE /\ config' = load(fs, profile)
               /\ ret' = [op |-> "load", afterLoad |-> lastLoad.valid,
                          afterSave |-> lastSaved.valid]
               /\ lastLoad' = IF lastLoad.valid THEN lastLoad
                              ELSE [valid |-> TRUE, rec |-> config',
                                    file |-> fs'[config_path(profile)],
                                    created |-> ~fs[config_path(profile)].exists]
    /\ UNCHANGED <<remote, pc, profile, token, playlists, selection, current_track_id,
                   notice, calls, interactive, prompted, saved, runs, fileAtStart,
                   playlistAtStart, credOwner, writes, resolutions, lastSaved>>
    /\ UNCHANGED runHistory

\* c.save(&profile)
StoreSave(c) ==
    /\ fs' = save(fs, c, profile)
    /\ config' = c
    /\ ret' = [op |-> "save", afterLoad |-> FALSE, afterSave |-> FALSE]
    /\ lastSaved' = [valid |-> TRUE, rec |-> c]
    /\ lastLoad' = NoLoad
    /\ UNCHANGED <<remote, pc, profile, token, playlists, selection, current_track_id,
                   notice, calls, interactive, prompted, saved, runs, fileAtStart,
                   playlistAtStart, credOwner, writes, resolutions>>
    /\ UNCHANGED runHistory

-----------------------------------------------------------------------------
(* Initial states *)

\* config files found on disk that no save of this program wrote as they are
HandFiles ==
    {NoFile,
     TextFile(<<>>),
     TextFile(<<ArrLine("playlist_track_cache", <<"t2", "t1">>),
                StrLine("playlist_snapshot_id", "s1")>>),
     TextFile(<<StrLine("volume", "11"), StrLine("playlist_id", PlaylistIdAt(1))>>),
     TextFile(<<BadLine>>),
     TextFile(<<ArrLine("playlist_id", <<>>)>>)}

\* config files at the start of the program's runs
RunFiles ==
    HandFiles \cup
    {TextFile(toml_to_string(PlaymateConfig(SomeStr(PlaylistIdAt(1)), NoneStr, NoneVec))),
     TextFile(toml_to_string(PlaymateConfig(SomeStr(PlaylistIdAt(MaxPlaylists)),
                                            SomeStr("s1"), SomeVec(<<"t1">>))))}

\* credentials a token cache file can hold
Creds == {"valid", "refreshable", "stale", "garbage"}

\* the process-local state and the history at the given position of a run
InitRun(pc0, prof, tok, n) ==
    /\ pc = pc0
    /\ profile = prof
    /\ token = tok
    /\ runs = n
    /\ config = PlaymateConfig_new
    /\ playlists = <<>>
    /\ selection = <<>>
    /\ current_track_id = ""
    /\ notice = ""
    /\ calls = <<>>
    /\ interactive = FALSE
    /\ prompted = FALSE
    /\ saved = FALSE
    /\ playlistAtStart = remote
    /\ writes = [p \in Profiles |-> 0]
    /\ resolutions = [p \in Profiles |-> 0]
    /\ answer = ""
    /\ rejected = FALSE
    /\ cacheAtStart = fs[cache_path]
    /\ ret = NoOp
    /\ lastSaved = NoSaved
    /\ lastLoad = NoLoad

\* no process is running
InitLocals == InitRun("idle", "default", "none", 0) /\ fileAtStart = NoFile

\* any config files and any token cache; every playlist holds one track
InitDisk ==
    /\ \E files \in [Profiles -> RunFiles], tf \in {NoFile} \cup {TokenFile(c) : c \in Creds} :
          fs = [path \in Paths |->
                  IF path = cache_path THEN tf
                  ELSE files[CHOOSE p \in Profiles : config_path(p) = path]]
    /\ credOwner = IF fs[cache_path].exists THEN "earlier" ELSE "none"
    /\ remote = [pl \in PlaylistIds |-> <<"t1">>]

\* a configured profile with a usable credential; the target playlist holds anything
InitPlaylist ==
    /\ \E pl \in PlaylistIds :
          /\ fs = [path \in Paths |->
                     IF path = cache_path THEN TokenFile("valid")
                     ELSE IF path = config_path("default")
                          THEN TextFile(toml_to_string(
                                   PlaymateConfig(SomeStr(pl), NoneStr, NoneVec)))
                          ELSE NoFile]
          /\ \E l \in SeqsUpTo(Tracks, MaxLen) :
                remote = [q \in PlaylistIds |-> IF q = pl THEN l ELSE <<>>]
    /\ credOwner = "earlier"

Init == (InitDisk \/ InitPlaylist) /\ InitLocals

\* the lines typed in the program's runs: at most one character
RunLines == {l \in Lines : Len(l) <= 2}

Next ==
    \/ \E p \in Profiles : StartRun(p)
    \/ LoadConfig
    \/ AuthCheckCache
    \/ \E ok \in BOOLEAN : AuthInteractive(ok)
    \/ AuthReadCache
    \/ CheckPlaylistId
    \/ \E listing \in Listings : FetchPlaylists(listing)
    \/ PrintMenu
    \/ \E line \in RunLines : ReadSelection(line)
    \/ SaveConfig
    \/ \E outcome \in QueryOutcomes : QueryCurrentTrack(outcome)
    \/ \E ok \in BOOLEAN : RemoveTrack(ok)
    \/ \E ok \in BOOLEAN : AddTrack(ok)

Spec == Init /\ [][Next]_vars

-----------------------------------------------------------------------------
(* fetch_playlist_id alone: the process is at the call, every line is tried *)

ResolveInit ==
    /\ fs = [path \in Paths |->
               IF path = cache_path THEN TokenFile("valid")
               ELSE IF path = config_path("default") THEN TextFile(<<>>) ELSE NoFile]
    /\ fileAtStart = TextFile(<<>>)
    /\ credOwner = "earlier"
    /\ remote = [pl \in PlaylistIds |-> <<>>]
    /\ InitRun("fetch", "default", "valid", 1)

ResolveNext ==
    \/ \E listing \in Listings : FetchPlaylists(listing)
    \/ PrintMenu
    \/ \E line \in Lines : ReadSelection(line)

ResolveSpec == ResolveInit /\ [][ResolveNext]_vars

\* the lines typed at the prompts of a resolution that may never end: at most
\* two characters
RetryLines == {l \in Lines : Len(l) <= 3}

ResolveRetryNext ==
    \/ \E listing \in Listings : FetchPlaylists(listing)
    \/ PrintMenu
    \/ \E line \in RetryLines : ReadSelection(line)

\* read_line returns the number of an entry of the menu, typed as one digit
ReadValidSelection ==
    \E d \in DigitChars :
        /\ DigitValue(d) \in 1..Len(playlists)
        /\ ReadSelection(<<d, "\n">>)

\* the process keeps running (the call, the menu and read_line each return),
\* and a user who is prompted again and again eventually types the number of
\* an entry
ResolveFairness ==
    /\ WF_vars(\E listing \in Listings : FetchPlaylists(listing))
    /\ WF_vars(PrintMenu)
    /\ WF_vars(\E line \in RetryLines : ReadSelection(line))
    /\ SF_vars(ReadValidSelection)

ResolveFairSpec == ResolveInit /\ [][ResolveRetryNext]_vars /\ ResolveFairness

-----------------------------------------------------------------------------
(* load and save alone, on one profile's file *)

StoreInit ==
    /\ remote = [pl \in PlaylistIds |-> <<>>]
    /\ \E p \in Profiles, f \in HandFiles :
          /\ fs = [path \in Paths |-> IF path = config_path(p) THEN f ELSE NoFile]
          /\ InitRun("idle", p, "none", 0)
    /\ fileAtStart = NoFile
    /\ credOwner = "none"

StoreNext ==
    \/ StoreLoad
    \/ \E c \in Configs : StoreSave(c)

StoreSpec == StoreInit /\ [][StoreNext]_vars

-----------------------------------------------------------------------------
(* Properties *)

Contains(seq, x) == \E i \in 1..Len(seq) : seq[i] = x
Count(l, t) == Cardinality({i \in 1..Len(l) : l[i] = t})
Without(l, t) == SelectSeq(l, LAMBDA x : x # t)

cfg == config_path(profile)

\* the run started with a playlist_id in the profile's config file
PidAtStart == fileAtStart.exists /\ HasKey(fileAtStart.text, "playlist_id")

\* the record in the file the run started with (an absent file loads as an empty one)
RecordAtStart == toml_from_str(fileAtStart.text)

NoMove == ~Contains(calls, "remove") /\ ~Contains(calls, "add")

\* C1 as stated: when the query reports that nothing is playing, the run prints
\* a notice, exits 0, calls neither remove nor add, and the config file is as it
\* was at the start of the run, whether or not a playlist_id was persisted
C1_NoTrackFileUnchanged ==
    answer = "none" =>
        /\ pc = "exit0"
        /\ notice # ""
        /\ NoMove
        /\ fs[cfg] = fileAtStart

\* C1 amended: when the query reports that nothing is playing, the run prints the
\* notice, exits 0 and calls neither remove nor add; the config file is as it was
\* at the start if a playlist_id was persisted then, and otherwise holds the
\* loaded record with playlist_id set to the playlist resolved in this run
C1_NoTrackFrame ==
    answer = "none" =>
        /\ pc = "exit0"
        /\ notice = "No track is playing"
        /\ NoMove
        /\ remote = playlistAtStart
        /\ PidAtStart => ~saved /\ fs[cfg] = fileAtStart
        /\ ~PidAtStart =>
              /\ saved
              /\ config.playlist_id.some
              /\ fs[cfg] = TextFile(toml_to_string(
                     [RecordAtStart EXCEPT !.playlist_id = config.playlist_id]))

C1_Witness ==
    /\ answer = "none"
    /\ PidAtStart
    /\ fileAtStart.text # <<StrLine("playlist_id", PlaylistIdAt(1))>>

\* C2: a run that starts with a persisted playlist_id never invokes the resolver
\* (no listing fetched, no prompt, no save): its first remote call is the
\* current-track query
C2_ResolverSkipped ==
    (pc # "idle" /\ PidAtStart) =>
        /\ pc \notin {"fetch", "menu", "prompt", "save"}
        /\ ~Contains(calls, "list")
        /\ ~prompted
        /\ ~saved
        /\ playlists = <<>>
        /\ calls # <<>> => calls[1] = "current"

C2_Witness == PidAtStart /\ interactive /\ calls = <<"current">>

\* C3: after a run whose remove and add calls both succeeded, the target playlist
\* holds the playing track exactly once, at the end, and every other track keeps
\* its multiplicity and relative order
MovedTrack == pc = "exit0" /\ calls # <<>> /\ calls[Len(calls)] = "add"

C3_MovedToEnd ==
    MovedTrack =>
        LET pl == config.playlist_id.v
            before == playlistAtStart[pl]
            after == remote[pl]
        IN /\ Count(after, current_track_id) = 1
           /\ after[Len(after)] = current_track_id
           /\ Without(after, current_track_id) = Without(before, current_track_id)
           /\ \A q \in PlaylistIds \ {pl} : remote[q] = playlistAtStart[q]

C3_Witness ==
    /\ MovedTrack
    /\ Count(playlistAtStart[config.playlist_id.v], current_track_id) >= 2
    /\ playlistAtStart[config.playlist_id.v][1] = current_track_id
    /\ Without(remote[config.playlist_id.v], current_track_id) # <<>>

\* C4 as stated: whenever the query succeeds without an item that has an id
\* (nothing playing, no item in the response, a local file), the run exits 0,
\* never aborts, and calls neither remove nor add
C4_AbsenceExitsCleanly ==
    answer \in {"none", "no_item", "local"} => pc = "exit0" /\ NoMove

\* the line spells the number n (1..9): optional whitespace around an optional
\* "+", any number of leading zeros and the digit
DigitName == <<"1", "2", "3", "4", "5", "6", "7", "8", "9">>
Blank(ch) == ch \in {" ", "\n"}
Spells(line, n) ==
    \E i, j \in 1..Len(line) :
        /\ i <= j
        /\ \A k \in 1..Len(line) : (k < i \/ k > j) => Blank(line[k])
        /\ line[j] = DigitName[n]
        /\ \A k \in i..(j - 1) : line[k] = "0" \/ (k = i /\ line[k] = "+")

\* C5: at the prompt a line that spells an n in 1..N makes the loop return the
\* id of the n-th listed playlist; any other line leads back to the menu and the
\* prompt with the list and all other state unchanged, never to an abort
C5_SelectionLoop ==
    /\ [][pc = "prompt" =>
            IF \E n \in 1..Len(playlists) : Spells(selection', n)
            THEN /\ pc' = "save"
                 /\ \E n \in 1..Len(playlists) :
                       /\ Spells(selection', n)
                       /\ config' = [config EXCEPT
                                       !.playlist_id = SomeStr(playlists[n].id)]
            ELSE /\ pc' = "menu"
                 /\ UNCHANGED <<playlists, config, fs, remote, token, calls, saved,
                                writes, resolutions, profile>>]_vars
    /\ [][(pc = "menu" /\ rejected) =>
            /\ pc' = "prompt"
            /\ UNCHANGED <<playlists, config, fs, remote, token, calls, saved,
                           writes, resolutions, profile, selection>>]_vars
    /\ [](pc = "save" => \E n \in 1..Len(playlists) :
                            /\ Spells(selection, n)
                            /\ config.playlist_id = SomeStr(playlists[n].id))

C5_Witness ==
    /\ pc = "save"
    /\ rejected
    /\ Len(playlists) = MaxPlaylists
    /\ selection[1] = "+"
    /\ config.playlist_id = SomeStr(PlaylistIdAt(MaxPlaylists))

\* C6 as stated: a run that becomes Authenticated without the interactive flow
\* uses a credential that a run under its own profile obtained
C6_CredentialPerProfile ==
    (pc = "authenticated" /\ ~interactive /\ credOwner \in Profiles)
        => credOwner = profile

\* C7 as stated: a run becomes Authenticated without the interactive flow exactly
\* when the token cache file existed and held a valid or refreshable credential
C7_InteractiveUnlessUsableCache ==
    pc = "authenticated" =>
        (~interactive <=>
            (cacheAtStart.exists /\ cacheAtStart.cred \in {"valid", "refreshable"}))

\* C8: the program saves a profile's config at most once, the save follows the
\* first successful resolution directly and stores its result, and a file that
\* holds a playlist_id is never changed again
C8_WrittenOnce ==
    /\ [](\A p \in Profiles : writes[p] <= 1)
    /\ [][\A p \in Profiles :
            HasKey(fs[config_path(p)].text, "playlist_id")
                => fs'[config_path(p)] = fs[config_path(p)]]_vars
    /\ [][\A p \in Profiles :
            fs'[config_path(p)] # fs[config_path(p)] =>
                \/ ~fs[config_path(p)].exists /\ fs'[config_path(p)] = TextFile(<<>>)
                \/ /\ writes'[p] = writes[p] + 1
                   /\ pc = "save" /\ profile = p
                   /\ resolutions[p] = 1
                   /\ config.playlist_id.some
                   /\ toml_from_str(fs'[config_path(p)].text).playlist_id
                         = config.playlist_id]_vars
    /\ [][pc' = "save" =>
            pc = "prompt" /\ resolutions'[profile] = resolutions[profile] + 1]_vars
    /\ [][pc = "save" => writes'[profile] = writes[profile] + 1]_vars

C8_Witness ==
    /\ writes[profile] = 1
    /\ ~saved
    /\ PidAtStart
    /\ pc = "exit0"

\* C9: a load that follows a save of record C, with no write in between, does not
\* fail and returns a record equal to C in all three fields
C9_LoadAfterSave ==
    ret.afterSave => ret.op = "load" /\ config = lastSaved.rec

C9_Witness ==
    /\ ret.op = "load"
    /\ ret.afterSave
    /\ ~config.playlist_id.some
    /\ ~config.playlist_snapshot_id.some
    /\ config.playlist_track_cache = SomeVec(<<"t2", "t1">>)

\* C10: a load repeated with no save in between returns the record the first load
\* returned and leaves the file as the first load left it; a load changes the
\* disk only by creating an empty file where none was
C10_LoadIdempotent ==
    /\ []((ret.op = "load" /\ ret.afterLoad) =>
            config = lastLoad.rec /\ fs[cfg] = lastLoad.file)
    /\ [][StoreLoad =>
            \/ fs' = fs
            \/ ~fs[cfg].exists /\ fs' = [fs EXCEPT ![cfg] = TextFile(<<>>)]]_vars

C10_Witness ==
    /\ ret.op = "load"
    /\ ret.afterLoad
    /\ lastLoad.created
    /\ fs[cfg] = TextFile(<<>>)

\* the record now in the running profile's config file
RecordOnDisk == toml_from_str(fs[cfg].text)

\* C11: the save after the first resolution changes playlist_id only: the
\* playlist_snapshot_id and playlist_track_cache in the file after the save are
\* the values the file held when the run loaded it
C11_SaveKeepsOtherFields ==
    saved =>
        /\ ~RecordAtStart.playlist_id.some
        /\ ~toml_is_err(fs[cfg].text)
        /\ RecordOnDisk.playlist_id = config.playlist_id
        /\ RecordOnDisk.playlist_snapshot_id = RecordAtStart.playlist_snapshot_id
        /\ RecordOnDisk.playlist_track_cache = RecordAtStart.playlist_track_cache

C11_Witness ==
    /\ saved
    /\ fileAtStart.exists
    /\ RecordOnDisk.playlist_snapshot_id = SomeStr("s1")
    /\ RecordOnDisk.playlist_track_cache = SomeVec(<<"t2", "t1">>)
    /\ RecordOnDisk.playlist_id.some

\* the orders in which one run can issue its remote calls
CallOrders ==
    {<<>>, <<"list">>, <<"current">>, <<"list", "current">>,
     <<"current", "remove">>, <<"list", "current", "remove">>,
     <<"current", "remove", "add">>, <<"list", "current", "remove", "add">>}

BeforeAuthenticated == {"load", "auth", "auth_interactive", "auth_read"}

\* C12: a run loads the config, authenticates, resolves and saves the playlist
\* only if none was persisted, then queries, removes and adds: no remote call
\* before the session is Authenticated, remove before add, add only after a
\* successful remove, and no remove or add while playlist_id is absent
C12_StepOrder ==
    /\ [](/\ calls \in CallOrders
          /\ pc \in BeforeAuthenticated \cup {"authenticated"} => calls = <<>>
          /\ pc = "load" => ~interactive /\ config = PlaymateConfig_new
          /\ Contains(calls, "list") => ~PidAtStart
          /\ (Contains(calls, "list") /\ Contains(calls, "current")) => saved
          /\ saved => Contains(calls, "list")
          /\ (Contains(calls, "remove") \/ pc \in {"remove", "add"})
                => config.playlist_id.some /\ HasKey(fs[cfg].text, "playlist_id")
          /\ pc = "add" =>
                /\ calls[Len(calls)] = "remove"
                /\ Count(remote[config.playlist_id.v], current_track_id) = 0)
    /\ [][(calls' # calls /\ pc' # "load") =>
            /\ pc \in {"fetch", "query", "remove", "add"}
            /\ token \in {"valid", "refreshable", "stale"}]_vars
    /\ [][(Contains(calls', "add") /\ ~Contains(calls, "add")) => pc = "add"]_vars

C12_Witness ==
    /\ calls = <<"list", "current", "remove", "add">>
    /\ interactive
    /\ pc = "exit0"

LastCall == IF calls = <<>> THEN "" ELSE calls[Len(calls)]
Target == config.playlist_id.v

\* C13: when the add call fails after a successful remove, the run aborts with no
\* further call and the playlist holds no occurrence of the track (the other
\* tracks as before); when the remove call fails, the run aborts with the
\* playlist as it was and add is never called
C13_PartialFailure ==
    /\ []((pc = "panic" /\ LastCall = "add") =>
            /\ Count(remote[Target], current_track_id) = 0
            /\ remote[Target] = Without(playlistAtStart[Target], current_track_id)
            /\ \A q \in PlaylistIds \ {Target} : remote[q] = playlistAtStart[q])
    /\ []((pc = "panic" /\ LastCall = "remove") =>
            remote = playlistAtStart /\ ~Contains(calls, "add"))
    /\ [][pc = "panic" => pc' = "load" /\ remote' = remote /\ calls' = <<>>]_vars

C13_Witness ==
    /\ pc = "panic"
    /\ LastCall = "add"
    /\ Count(playlistAtStart[Target], current_track_id) >= 2
    /\ remote[Target] # <<>>

\* a listing entry failed to load
ListingFailed == \E i \in 1..Len(playlists) : ~playlists[i].ok

\* C14: when an entry of the fetched listing failed to load, resolution aborts
\* while the menu is printed, before a line is read, whatever the user would
\* choose; nothing is saved, the file has no playlist_id and the next run under
\* the profile resolves again
C14_FailedEntryAborts ==
    /\ [](ListingFailed =>
            /\ pc \in {"menu", "panic"}
            /\ ~prompted
            /\ selection = <<>>
            /\ ~saved
            /\ ~config.playlist_id.some
            /\ ~HasKey(fs[cfg].text, "playlist_id")
            /\ ~load_panics(fs, profile)
            /\ playlist_step(load(fs, profile)) = "fetch")
    /\ [][(ListingFailed /\ pc = "menu") => pc' = "panic"]_vars

C14_Witness ==
    /\ ListingFailed
    /\ pc = "panic"
    /\ Len(playlists) = MaxPlaylists
    /\ playlists[1].ok

\* the run aborted before the current-track query: in load, authentication or
\* playlist resolution
AbortedEarly == pc = "panic" /\ ~Contains(calls, "current")

\* the identifiers of the entries of the listing fetched in this run
ListedIds == {playlists[i].id : i \in {j \in 1..Len(playlists) : playlists[j].ok}}

\* C15: a run that aborts in authentication or playlist resolution has saved
\* nothing: the profile's config file is as it was at the start of the run, or
\* it was absent and is now empty; and a config file comes to hold a
\* playlist_id only by the save of a run that listed an entry with that id
C15_AbortBeforeSave ==
    /\ [](AbortedEarly =>
            /\ ~saved
            /\ \/ fs[cfg] = fileAtStart
               \/ /\ ~fileAtStart.exists
                  /\ fs[cfg] = TextFile(<<>>)
                  /\ ~toml_from_str(fs[cfg].text).playlist_id.some)
    /\ [](saved =>
            /\ Contains(calls, "list")
            /\ RecordOnDisk.playlist_id.some
            /\ RecordOnDisk.playlist_id.v \in ListedIds)
    /\ [][\A p \in Profiles :
            (/\ fs'[config_path(p)] # fs[config_path(p)]
             /\ HasKey(fs'[config_path(p)].text, "playlist_id"))
            => /\ pc = "save"
               /\ p = profile
               /\ calls = <<"list">>
               /\ toml_from_str(fs'[config_path(p)].text).playlist_id.v \in ListedIds]_vars

C15_Witness ==
    /\ AbortedEarly
    /\ calls = <<"list">>
    /\ fileAtStart.exists
    /\ fileAtStart.text # <<>>
    /\ fs[cfg] = fileAtStart

\* the loop of fetch_playlist_id is running
InLoop == pc \in {"menu", "prompt"}

\* C16: the loop is left only by a valid selection or by the end of the
\* process; with a listing of N >= 1 loaded entries and a user who eventually
\* types a line in [1, N] the resolver returns; a rejected line (an empty line
\* at end of input among them) leads back to the prompt, and with N = 0 the
\* loop prompts again forever and save is never reached
C16_LoopExit ==
    /\ [][InLoop => pc' \in {"menu", "prompt", "panic", "save"}]_vars
    /\ [][(InLoop /\ pc' = "save") =>
            /\ pc = "prompt"
            /\ \E n \in 1..Len(playlists) : Spells(selection', n)]_vars
    /\ [][(InLoop /\ pc' = "panic") => pc = "menu" /\ ListingFailed]_vars
    /\ [][(pc = "prompt" /\ selection' = <<>>) => pc' = "menu"]_vars
    /\ (InLoop /\ Len(playlists) >= 1 /\ ~ListingFailed) ~> pc = "save"
    /\ [](pc = "save" => Len(playlists) >= 1)
    /\ []((InLoop /\ playlists = <<>>) => [](InLoop /\ ~saved /\ calls = <<"list">>))
    /\ (pc = "menu" /\ playlists = <<>>) ~> pc = "prompt"
    /\ (pc = "prompt" /\ playlists = <<>>) ~> (pc = "menu" /\ rejected)

C16_Witness ==
    /\ pc = "prompt"
    /\ rejected
    /\ playlists = <<>>
    /\ selection = <<>>

\* C17: one resolution fetches the listing once, before the first prompt; the
\* loop never changes the collected list, so a number selects the same entry
\* at every prompt
C17_ListingFetchedOnce ==
    /\ [][InLoop => playlists' = playlists /\ calls' = calls]_vars
    /\ [][pc = "prompt" => pc' \in {"menu", "save", "panic"}]_vars
    /\ [](pc = "fetch" => calls = <<>> /\ ~prompted /\ selection = <<>>)
    /\ [](pc # "fetch" => calls = <<"list">>)
    /\ [](prompted => Count(calls, "list") = 1)
    /\ [][(pc = "prompt" /\ pc' = "save") =>
            /\ config'.playlist_id = SomeStr(selected_id(selection', playlists))
            /\ selected_id(selection', playlists') = selected_id(selection', playlists)]_vars

C17_Witness ==
    /\ pc = "prompt"
    /\ rejected
    /\ selection # <<>>
    /\ Len(playlists) = MaxPlaylists
    /\ calls = <<"list">>

\* C18: a step of a run under one profile leaves the config file of every
\* other profile as it is; load returns the record of the profile's own file;
\* and whatever other profiles have saved, a run whose own file has no
\* playlist_id prompts for a playlist and saves before the current-track query
C18_ProfileIsolation ==
    /\ [][\A q \in Profiles :
            q # profile' => fs'[config_path(q)] = fs[config_path(q)]]_vars
    /\ [](pc = "auth" => /\ fs[cfg].exists
                         /\ config = toml_from_str(fs[cfg].text))
    /\ [](pc = "fetch" => ~PidAtStart /\ ~HasKey(fs[cfg].text, "playlist_id"))
    /\ []((pc \in {"query", "remove", "add"} /\ ~PidAtStart) => prompted /\ saved)
    /\ [](\A q \in Profiles : writes[q] >= 1 =>
            /\ fs[config_path(q)].exists
            /\ HasKey(fs[config_path(q)].text, "playlist_id"))

C18_Witness ==
    /\ pc = "prompt"
    /\ profile = "work"
    /\ writes["default"] = 1
    /\ writes["work"] = 0
    /\ HasKey(fs[config_path("default")].text, "playlist_id")
    /\ ~fileAtStart.exists

====
